---- MODULE Spec2Model ----
(***************************************************************************)
(* Banner generation and caching engine of loved-cli                       *)
(* (src/src/services/BannerService.ts).                                    *)
(*                                                                         *)
(* Several specifications share the module:                                *)
(*   SpecCover  the cover-fit geometry of createBanner (lines 103-116)     *)
(*   SpecTrunc  the title truncation of createBanner (lines 118-136), and  *)
(*              FairSpecTrunc, the same with the loop running to its end   *)
(*   SpecStore  saveCache in one process, loadCache in the next            *)
(*   SpecKey    the cache key of two requests (lines 90-95)                *)
(*   Spec       createBanner as a whole, one call after another, with the  *)
(*              cache index file and the output files on disk              *)
(*   SpecNews   the banner step of the news command: generateBanners runs  *)
(*              one createBanner per beatmapset concurrently under         *)
(*              Promise.all, with fail-fast exit (NewsService.ts 158-192,  *)
(*              commands/news.ts 87-127)                                   *)
(*                                                                         *)
(* Modelling conventions:                                                  *)
(*   - JavaScript numbers in the geometry are exact rationals <<n, d>>;    *)
(*     IEEE-754 rounding is not modelled.                                  *)
(*   - measureText(s).width is the sum of the glyph advances of s.         *)
(*   - md5 is collision free: the digest of a byte stream is the stream    *)
(*     itself written in hex digits (one digit per byte, bytes are 0..15). *)
(*   - text is a sequence of one-character strings.                        *)
(***************************************************************************)
EXTENDS Integers, Sequences, FiniteSets, TLC

\* ------------------------------------------------------------------------
\* Bounds of the model
\* ------------------------------------------------------------------------
MaxDim == 5
MaxTitleLen == 4
MaxCalls == 2
NumTasks == 2
MaxKeys == 3
MaxInputLen == 2

\* ------------------------------------------------------------------------
\* Program constants
\* ------------------------------------------------------------------------
UNSCALED_WIDTH == 670
UNSCALED_HEIGHT == 200
SCALES == <<1, 2>>
TITLE_MARGIN == 16
FONT_SIZE == 21
VERSION == 4

None == "none"

\* ------------------------------------------------------------------------
\* Exact rational arithmetic for the geometry
\* ------------------------------------------------------------------------
Abs(n) == IF n < 0 THEN -n ELSE n

RECURSIVE Gcd(_, _)
Gcd(a, b) == IF b = 0 THEN a ELSE Gcd(b, a % b)

Rat(n, d) ==
  LET g == Gcd(Abs(n), d) IN <<n \div g, d \div g>>

RLess(a, b) == a[1] * b[2] < b[1] * a[2]
RSub(a, b) == Rat(a[1] * b[2] - b[1] * a[2], a[2] * b[2])
RAdd(a, b) == Rat(a[1] * b[2] + b[1] * a[2], a[2] * b[2])
RMul(a, b) == Rat(a[1] * b[1], a[2] * b[2])
RDiv(a, b) == Rat(a[1] * b[2], a[2] * b[1])
RInt(n) == <<n, 1>>

\* ------------------------------------------------------------------------
\* Cover-fit geometry (createBanner, lines 103-116)
\* ------------------------------------------------------------------------
RatioBelowCanvas_flipped(backgroundImageRatio, canvasRatio) ==
  RLess(canvasRatio, backgroundImageRatio)

RatioBelowCanvas(backgroundImageRatio, canvasRatio) ==
  RLess(backgroundImageRatio, canvasRatio)

BackgroundOffset_notHalved(canvasSide, imageSide) ==
  RSub(RInt(canvasSide), imageSide)

BackgroundOffset(canvasSide, imageSide) ==
  RDiv(RSub(RInt(canvasSide), imageSide), RInt(2))

CoverFit(w, h) ==
  LET backgroundImageRatio == Rat(w, h)
      canvasRatio == Rat(UNSCALED_WIDTH, UNSCALED_HEIGHT)
      below == RatioBelowCanvas(backgroundImageRatio, canvasRatio)
      width == IF below THEN RInt(UNSCALED_WIDTH)
               ELSE RMul(RInt(UNSCALED_HEIGHT), backgroundImageRatio)
      height == IF below THEN RDiv(RInt(UNSCALED_WIDTH), backgroundImageRatio)
                ELSE RInt(UNSCALED_HEIGHT)
  IN [width |-> width,
      height |-> height,
      x |-> BackgroundOffset(UNSCALED_WIDTH, width),
      y |-> BackgroundOffset(UNSCALED_HEIGHT, height)]

\* ------------------------------------------------------------------------
\* Title truncation (createBanner, lines 118-136)
\* ------------------------------------------------------------------------
Glyphs == {"a", "W", "."}
WidthValues == {100, 220, 319}
WidthAssignments == [Glyphs -> WidthValues]
Ellipsis == <<".", ".", ".">>

RECURSIVE MeasureText(_, _)
MeasureText(s, wd) ==
  IF s = <<>> THEN 0 ELSE wd[Head(s)] + MeasureText(Tail(s), wd)

titleMaxWidth == UNSCALED_WIDTH - 2 * TITLE_MARGIN

DropLast(s) == SubSeq(s, 1, Len(s) - 1)

TitleTooWide_inclusive(title, wd) == MeasureText(title, wd) >= titleMaxWidth

TitleTooWide(title, wd) == MeasureText(title, wd) > titleMaxWidth

TruncateCond_noLengthGuard(truncatedTitle, wd) ==
  MeasureText(truncatedTitle \o Ellipsis, wd) > titleMaxWidth

TruncateCond(truncatedTitle, wd) ==
  /\ MeasureText(truncatedTitle \o Ellipsis, wd) > titleMaxWidth
  /\ Len(truncatedTitle) > 0

TruncateResult(truncatedTitle, title) ==
  IF Len(truncatedTitle) < Len(title) THEN truncatedTitle \o Ellipsis
  ELSE truncatedTitle

RECURSIVE TruncateLoop(_, _)
TruncateLoop(truncatedTitle, wd) ==
  IF TruncateCond(truncatedTitle, wd)
  THEN TruncateLoop(DropLast(truncatedTitle), wd)
  ELSE truncatedTitle

DisplayTitle(title, wd) ==
  IF TitleTooWide(title, wd)
  THEN TruncateResult(TruncateLoop(title, wd), title)
  ELSE title

\* ------------------------------------------------------------------------
\* Text of the cache index file (loadCache / saveCache, lines 39-56)
\* ------------------------------------------------------------------------
NL == "\n"

Range(seq) == {seq[i] : i \in DOMAIN seq}

RECURSIVE JoinLines_noSeparator(_)
JoinLines_noSeparator(keys) ==
  IF keys = <<>> THEN <<>>
  ELSE keys[1] \o JoinLines_noSeparator(Tail(keys))

RECURSIVE JoinLines(_)
JoinLines(keys) ==
  IF keys = <<>> THEN <<>>
  ELSE IF Len(keys) = 1 THEN keys[1]
  ELSE keys[1] \o <<NL>> \o JoinLines(Tail(keys))

RECURSIVE SplitAcc(_, _, _)
SplitAcc(text, cur, acc) ==
  IF text = <<>> THEN Append(acc, cur)
  ELSE IF Head(text) = NL THEN SplitAcc(Tail(text), <<>>, Append(acc, cur))
  ELSE SplitAcc(Tail(text), Append(cur, Head(text)), acc)

SplitLines(text) == SplitAcc(text, <<>>, <<>>)

FilterBoolean_kept(lines) == lines

FilterBoolean(lines) == SelectSeq(lines, LAMBDA l : l # <<>>)

SetAdd_dropped(set, k) == set

\* a JavaScript Set: the distinct members in insertion order
SetAdd(set, k) == IF k \in Range(set) THEN set ELSE Append(set, k)

RECURSIVE NewSetAcc(_, _)
NewSetAcc(items, acc) ==
  IF items = <<>> THEN acc ELSE NewSetAcc(Tail(items), SetAdd(acc, Head(items)))

NewSet(items) == NewSetAcc(items, <<>>)

ParseCache(contents) == NewSet(FilterBoolean(SplitLines(contents)))

SerializeCache_newestOnly(set) == IF set = <<>> THEN <<>> ELSE set[Len(set)]

SerializeCache(set) == JoinLines(set)

\* ------------------------------------------------------------------------
\* Cache key (createBanner, lines 90-95)
\* ------------------------------------------------------------------------
HexDigits ==
  <<"0", "1", "2", "3", "4", "5", "6", "7",
    "8", "9", "a", "b", "c", "d", "e", "f">>

GlyphByte == [g \in Glyphs |-> CASE g = "a" -> 10 [] g = "W" -> 11 [] g = "." -> 12]

Utf8(title) == [i \in DOMAIN title |-> GlyphByte[title[i]]]

HexDigest(stream) == [i \in DOMAIN stream |-> HexDigits[stream[i] + 1]]

HashInput(backgroundBuffer, title) ==
  <<VERSION>> \o backgroundBuffer \o Utf8(title)

CacheKey(backgroundBuffer, title) == HexDigest(HashInput(backgroundBuffer, title))

\* ------------------------------------------------------------------------
\* Files and images
\* ------------------------------------------------------------------------
DefaultBackground == "voting-default-background.jpg"
BackgroundPaths == {None, "wide.jpg", "broken.jpg"}

\* contents of the background files: the two header bytes are width, height
FileBytes ==
  [p \in {DefaultBackground, "wide.jpg", "broken.jpg"} |->
     CASE p = DefaultBackground -> <<3, 1>>
       [] p = "wide.jpg" -> <<10, 1>>
       [] p = "broken.jpg" -> <<0>>]

DecodeImage(buffer) ==
  IF Len(buffer) = 2 /\ buffer[1] > 0 /\ buffer[2] > 0
  THEN [ok |-> TRUE, width |-> buffer[1], height |-> buffer[2]]
  ELSE [ok |-> FALSE]

Stems == {<<"1">>, <<"2">>}
OutputPathInputs == Stems \cup {<<>>}
Titles == {<<"a">>, <<"W", "W", "a">>}

OutputFile(outputPath, scale) ==
  outputPath \o (IF scale > 1 THEN <<"@", ToString(scale), "x">> ELSE <<>>) \o <<".jpg">>

OutputFiles == {OutputFile(s, sc) : s \in Stems, sc \in Range(SCALES)}

\* a file on disk: missing, a complete JPEG, or what a failed write left
MissingFile == [kind |-> "missing"]
PartialFile == [kind |-> "partial"]
JpegFile(raster) == [kind |-> "jpeg", image |-> raster]
TextFile(text) == [kind |-> "text", text |-> text]

existsSync(files, f) == files[f].kind # "missing"

\* glyph advances at 21px of the registered Torus face and of the face the
\* canvas falls back to when the registration failed
FontWidths ==
  [f \in {"Torus", "fallback"} |->
     [g \in Glyphs |->
        IF f = "Torus" THEN (IF g = "W" THEN 319 ELSE 100)
        ELSE (IF g = "W" THEN 319 ELSE 220)]]

CanvasWidth_unscaled(scale) == UNSCALED_WIDTH

CanvasWidth(scale) == UNSCALED_WIDTH * scale
CanvasHeight(scale) == UNSCALED_HEIGHT * scale

\* the raster of one scale (lines 140-170) and its JPEG file (lines 170-178)
Raster(backgroundBuffer, layout, displayTitle, scale) ==
  [width |-> CanvasWidth(scale),
   height |-> CanvasHeight(scale),
   background |-> backgroundBuffer,
   x |-> RMul(layout.x, RInt(scale)),
   y |-> RMul(layout.y, RInt(scale)),
   bw |-> RMul(layout.width, RInt(scale)),
   bh |-> RMul(layout.height, RInt(scale)),
   overlay |-> scale,
   text |-> displayTitle,
   fontSize |-> FONT_SIZE * scale]

Banner(backgroundBuffer, title, face, scale) ==
  Raster(backgroundBuffer,
         CoverFit(DecodeImage(backgroundBuffer).width, DecodeImage(backgroundBuffer).height),
         DisplayTitle(title, FontWidths[face]), scale)

InCache(set, key) == key \in Range(set)

CacheHit_oneFile(set, key, files, outputPath) ==
  /\ InCache(set, key)
  /\ existsSync(files, OutputFile(outputPath, 1))

CacheHit(set, key, files, outputPath) ==
  /\ InCache(set, key)
  /\ existsSync(files, OutputFile(outputPath, 1))
  /\ existsSync(files, OutputFile(outputPath, 2))

\* ------------------------------------------------------------------------
\* State
\* ------------------------------------------------------------------------
VARIABLES
  \* BannerService fields and the canvas font registry
  cache, cacheLoaded, overlayImages, font,
  \* the disk: cache index file and output files
  indexFile, outFiles,
  \* the createBanner call in progress (arguments, locals, position) with
  \* its history: state at entry (pre), what the hit test saw (chk), the
  \* steps it ran (did), the files it wrote (wrote), the call before (prev)
  task, calls,
  \* the news command: its position, options, exit code and started steps
  command,
  \* cover-fit geometry on its own
  srcWidth, srcHeight, layout, layoutPc,
  \* title truncation on its own
  title, widths, truncatedTitle, displayTitle, truncPc, iterations,
  \* the index file format on its own: a key set saved by one process and
  \* loaded by the next
  store,
  \* the cache key on its own: two requests and what is fed to the hash
  hashing

bannerVars ==
  <<cache, cacheLoaded, overlayImages, font, indexFile, outFiles, task, calls, command>>
coverVars == <<srcWidth, srcHeight, layout, layoutPc>>
truncVars == <<title, widths, truncatedTitle, displayTitle, truncPc, iterations>>
unitVars == <<store, hashing>>
vars == <<bannerVars, coverVars, truncVars, unitVars>>

NoLayout == [none |-> TRUE]
NoSnapshot == [none |-> TRUE]
NoCall == [none |-> TRUE]
NoCheck == [inCache |-> FALSE, exists1 |-> FALSE, exists2 |-> FALSE, cache |-> <<>>]

Tasks == 1 .. NumTasks

NoOptions ==
  [skipBanners |-> FALSE, bannersOnly |-> FALSE, threads |-> FALSE,
   skipDiscord |-> FALSE, dryRun |-> FALSE]

IdleCommand ==
  [pc |-> "off", options |-> NoOptions, round |-> <<>>, next |-> 1,
   exitCode |-> -1, did |-> {}]

IdleTask ==
  [pc |-> "idle", backgroundPath |-> None, outputPath |-> <<>>, title |-> <<>>,
   backgroundBuffer |-> <<>>, cacheKey |-> <<>>, layout |-> NoLayout,
   displayTitle |-> <<>>, face |-> None, scale |-> 0, buffer |-> NoLayout,
   contents |-> <<>>, result |-> None, did |-> {}, wrote |-> {},
   pre |-> NoSnapshot, chk |-> NoCheck, prev |-> NoCall]

BannerIdle ==
  /\ cache = <<>>
  /\ cacheLoaded = FALSE
  /\ overlayImages = {}
  /\ font = "fallback"
  /\ indexFile = MissingFile
  /\ outFiles = [f \in OutputFiles |-> MissingFile]
  /\ task = [t \in Tasks |-> IdleTask]
  /\ calls = 0
  /\ command = IdleCommand

CoverIdle ==
  /\ srcWidth = 0
  /\ srcHeight = 0
  /\ layout = NoLayout
  /\ layoutPc = "off"

TruncIdle ==
  /\ title = <<>>
  /\ widths = [g \in Glyphs |-> 0]
  /\ truncatedTitle = <<>>
  /\ displayTitle = <<>>
  /\ truncPc = "off"
  /\ iterations = 0

StoreIdle == store = [pc |-> "off", keys |-> <<>>, text |-> <<>>, loaded |-> <<>>]

HashingIdle == hashing = [pc |-> "off"]

UnitIdle == StoreIdle /\ HashingIdle

\* ------------------------------------------------------------------------
\* SpecCover: the cover-fit geometry applied to every source size
\* ------------------------------------------------------------------------
Dims == (1 .. MaxDim) \cup {200, 670, 2000}

InitCover ==
  /\ srcWidth \in Dims
  /\ srcHeight \in Dims
  /\ layout = NoLayout
  /\ layoutPc = "start"
  /\ BannerIdle
  /\ TruncIdle
  /\ UnitIdle

PositionBackground ==
  /\ layoutPc = "start"
  /\ layout' = CoverFit(srcWidth, srcHeight)
  /\ layoutPc' = "done"
  /\ UNCHANGED <<srcWidth, srcHeight, bannerVars, truncVars, unitVars>>

NextCover == PositionBackground

SpecCover == InitCover /\ [][NextCover]_vars

\* ------------------------------------------------------------------------
\* SpecTrunc: the truncation applied to every title and glyph-width table
\* ------------------------------------------------------------------------
RECURSIVE SeqsUpTo(_, _)
SeqsUpTo(S, n) ==
  IF n = 0 THEN {<<>>}
  ELSE LET shorter == SeqsUpTo(S, n - 1)
       IN shorter \cup {Append(s, x) : s \in shorter, x \in S}

InitTrunc ==
  /\ title \in SeqsUpTo(Glyphs, MaxTitleLen)
  /\ widths \in WidthAssignments
  /\ truncatedTitle = <<>>
  /\ displayTitle = <<>>
  /\ truncPc = "measure"
  /\ iterations = 0
  /\ BannerIdle
  /\ CoverIdle
  /\ UnitIdle

\* lines 123-131: measure the title, enter the loop only when it is too wide
MeasureTitle ==
  /\ truncPc = "measure"
  /\ IF TitleTooWide(title, widths)
     THEN /\ truncatedTitle' = title
          /\ truncPc' = "loop"
          /\ UNCHANGED displayTitle
     ELSE /\ displayTitle' = title
          /\ truncPc' = "done"
          /\ UNCHANGED truncatedTitle
  /\ UNCHANGED <<title, widths, iterations, bannerVars, coverVars, unitVars>>

\* lines 132-134: one iteration of the while loop
TruncateStep ==
  /\ truncPc = "loop"
  /\ TruncateCond(truncatedTitle, widths)
  /\ truncatedTitle' = DropLast(truncatedTitle)
  /\ iterations' = iterations + 1
  /\ UNCHANGED <<title, widths, displayTitle, truncPc, bannerVars, coverVars, unitVars>>

\* line 135: the loop condition is false
TruncateExit ==
  /\ truncPc = "loop"
  /\ ~TruncateCond(truncatedTitle, widths)
  /\ displayTitle' = TruncateResult(truncatedTitle, title)
  /\ truncPc' = "done"
  /\ UNCHANGED <<title, widths, truncatedTitle, iterations, bannerVars, coverVars, unitVars>>

NextTrunc == MeasureTitle \/ TruncateStep \/ TruncateExit

SpecTrunc == InitTrunc /\ [][NextTrunc]_vars

\* the loop is synchronous code: once entered it runs until its condition is
\* false
FairSpecTrunc == SpecTrunc /\ WF_vars(NextTrunc)

\* ------------------------------------------------------------------------
\* SpecStore: saveCache in one process, loadCache in the next (lines 39-56)
\* ------------------------------------------------------------------------
\* the keys createBanner can compute from the backgrounds and titles modelled
KeyPool == { CacheKey(FileBytes[p], u) : p \in DOMAIN FileBytes, u \in Titles }

\* a Set of keys: up to MaxKeys distinct keys in insertion order
KeySets ==
  { keys \in SeqsUpTo(KeyPool, MaxKeys) : Cardinality(Range(keys)) = Len(keys) }

InitStore ==
  /\ \E keys \in KeySets :
       store = [pc |-> "save", keys |-> keys, text |-> <<>>, loaded |-> <<>>]
  /\ HashingIdle
  /\ BannerIdle
  /\ CoverIdle
  /\ TruncIdle

\* line 55: the key set is written to the index file
SaveCache ==
  /\ store.pc = "save"
  /\ store' = [store EXCEPT !.text = SerializeCache(store.keys), !.pc = "load"]
  /\ UNCHANGED <<hashing, bannerVars, coverVars, truncVars>>

\* lines 43-44 in the next process: the file is read and parsed
LoadCache ==
  /\ store.pc = "load"
  /\ store' = [store EXCEPT !.loaded = ParseCache(store.text), !.pc = "loaded"]
  /\ UNCHANGED <<hashing, bannerVars, coverVars, truncVars>>

NextStore == SaveCache \/ LoadCache

SpecStore == InitStore /\ [][NextStore]_vars

\* ------------------------------------------------------------------------
\* SpecKey: the cache key of two requests (createBanner, lines 90-95)
\* ------------------------------------------------------------------------
\* background files are arbitrary bytes, among them the bytes that encode
\* title characters
InputBytes == {1} \cup {GlyphByte[g] : g \in {"a", "W"}}

Requests ==
  [backgroundBuffer : SeqsUpTo(InputBytes, MaxInputLen),
   title : SeqsUpTo({"a", "W"}, MaxInputLen)]

InitKey ==
  /\ \E a \in Requests, b \in Requests :
       hashing = [pc |-> "update", a |-> a, b |-> b,
                  inputA |-> <<>>, inputB |-> <<>>, keyA |-> <<>>, keyB |-> <<>>]
  /\ StoreIdle
  /\ BannerIdle
  /\ CoverIdle
  /\ TruncIdle

\* lines 91-94: the three update calls feed the hash
UpdateHash ==
  /\ hashing.pc = "update"
  /\ hashing' = [hashing EXCEPT
                   !.inputA = HashInput(hashing.a.backgroundBuffer, hashing.a.title),
                   !.inputB = HashInput(hashing.b.backgroundBuffer, hashing.b.title),
                   !.pc = "digest"]
  /\ UNCHANGED <<store, bannerVars, coverVars, truncVars>>

\* line 95: digest("hex")
DigestHash ==
  /\ hashing.pc = "digest"
  /\ hashing' = [hashing EXCEPT !.keyA = HexDigest(hashing.inputA),
                                !.keyB = HexDigest(hashing.inputB),
                                !.pc = "done"]
  /\ UNCHANGED <<store, bannerVars, coverVars, truncVars>>

NextKey == UpdateHash \/ DigestHash

SpecKey == InitKey /\ [][NextKey]_vars

\* ------------------------------------------------------------------------
\* Spec: createBanner, one call after another in one process
\* ------------------------------------------------------------------------
\* what an earlier run of the program can have left on disk
PreviousTitle == <<"a">>
PreviousKey == CacheKey(FileBytes[DefaultBackground], PreviousTitle)
PreviousBanner(sc) ==
  JpegFile(Banner(FileBytes[DefaultBackground], PreviousTitle, "Torus", sc))

InitialDisks ==
  { [index |-> MissingFile,
     files |-> [f \in OutputFiles |-> MissingFile]],
    [index |-> TextFile(SerializeCache(<<PreviousKey>>)),
     files |-> [f \in OutputFiles |-> MissingFile]],
    [index |-> TextFile(SerializeCache(<<PreviousKey>>)),
     files |-> [f \in OutputFiles |->
                  IF f = OutputFile(<<"1">>, 1) THEN PreviousBanner(1)
                  ELSE IF f = OutputFile(<<"1">>, 2) THEN PreviousBanner(2)
                  ELSE MissingFile]] }

Init ==
  /\ cache = <<>>
  /\ cacheLoaded = FALSE
  /\ overlayImages = {}
  /\ font = "fallback"
  /\ \E disk \in InitialDisks :
       /\ indexFile = disk.index
       /\ outFiles = disk.files
  /\ task = [t \in Tasks |-> IdleTask]
  /\ calls = 0
  /\ command = IdleCommand
  /\ CoverIdle
  /\ TruncIdle
  /\ UnitIdle

Finished(t) == task[t].pc \in {"idle", "returned", "failed"}

Step(name) == <<name, 0>>

Snapshot ==
  [cache |-> cache, cacheLoaded |-> cacheLoaded,
   indexFile |-> indexFile, outFiles |-> outFiles]

Summary(r) ==
  IF r.pc = "idle" THEN NoCall
  ELSE [outputPath |-> r.outputPath, title |-> r.title,
        backgroundBuffer |-> r.backgroundBuffer, result |-> r.result,
        wasRecorded |-> r.chk.inCache,
        displayTitle |-> r.displayTitle, rendered |-> Step("layout") \in r.did]

Become(t, r) == task' = [task EXCEPT ![t] = r]

\* what process.exit leaves of another call: whether it had returned
Gone(r) ==
  [IdleTask EXCEPT !.pc = IF r.pc = "returned" THEN "returned" ELSE "killed",
                   !.result = r.result]

\* the call rejects; under the news command the rejection ends the process
\* (news.ts line 95) and the frames of the other calls end with it
Fail(t) ==
  LET r == [task[t] EXCEPT !.pc = "failed", !.result = "error"]
  IN IF command.pc = "banners"
     THEN task' = [u \in Tasks |-> IF u = t THEN r ELSE Gone(task[u])]
     ELSE Become(t, r)

\* line 139: the loop over SCALES ends after its last element
IsLastScale_first(scale) == scale = SCALES[1]

IsLastScale(scale) == scale = SCALES[Len(SCALES)]

\* loadOverlayImage(scale), lines 61-67, up to its await
AwaitOverlay(r, scale) ==
  [r EXCEPT !.scale = scale,
            !.pc = IF scale \in overlayImages THEN "draw" ELSE "loadOverlay"]

\* lines 77-87: the synchronous head of createBanner
Call(t, backgroundPath, outputPath, bannerTitle) ==
  /\ calls < MaxCalls
  /\ calls' = calls + 1
  /\ LET r == [IdleTask EXCEPT
                 !.backgroundPath = IF backgroundPath = None THEN DefaultBackground
                                    ELSE backgroundPath,
                 !.outputPath = outputPath,
                 !.title = bannerTitle,
                 !.pre = Snapshot,
                 !.prev = Summary(task[t])]
     IN IF outputPath = <<>>
        THEN /\ Become(t, [r EXCEPT !.pc = "failed", !.result = "error"])
             /\ UNCHANGED font
        ELSE /\ \E registered \in BOOLEAN :
                  font' = IF registered THEN "Torus" ELSE font
             /\ Become(t, [r EXCEPT !.pc = IF cacheLoaded THEN "readFile" ELSE "loadCache"])
  /\ UNCHANGED <<cache, cacheLoaded, overlayImages, indexFile, outFiles, coverVars, truncVars, unitVars>>

LoadCacheDone_throws(t) ==
  /\ task[t].pc = "loadCache"
  /\ \E readable \in BOOLEAN :
       IF readable /\ indexFile.kind = "text"
       THEN /\ cache' = ParseCache(indexFile.text)
            /\ cacheLoaded' = TRUE
            /\ Become(t, [task[t] EXCEPT !.pc = "readFile",
                                         !.did = @ \cup {Step("loadCache")}])
       ELSE /\ Fail(t)
            /\ UNCHANGED <<cache, cacheLoaded>>
  /\ UNCHANGED <<overlayImages, font, indexFile, outFiles, calls, coverVars, truncVars, unitVars>>

\* loadCache, lines 42-48: the read of the index file completes
LoadCacheDone(t) ==
  /\ task[t].pc = "loadCache"
  /\ \E readable \in BOOLEAN :
       cache' = IF readable /\ indexFile.kind = "text"
                THEN ParseCache(indexFile.text)
                ELSE <<>>
  /\ cacheLoaded' = TRUE
  /\ Become(t, [task[t] EXCEPT !.pc = "readFile", !.did = @ \cup {Step("loadCache")}])
  /\ UNCHANGED <<overlayImages, font, indexFile, outFiles, calls, coverVars, truncVars, unitVars>>

UseCached_resaves(t, r) ==
  /\ Become(t, [r EXCEPT !.pc = "returned", !.result = "false"])
  /\ indexFile' = TextFile(SerializeCache(cache))

\* lines 97-99: the cache hit, `return false`
UseCached(t, r) ==
  /\ Become(t, [r EXCEPT !.pc = "returned", !.result = "false"])
  /\ UNCHANGED indexFile

\* lines 90-101: the background is read, the key computed, the cache tested
ReadFileDone(t) ==
  /\ task[t].pc = "readFile"
  /\ \E ok \in BOOLEAN :
       IF ~ok THEN Fail(t) /\ UNCHANGED indexFile
       ELSE LET backgroundBuffer == FileBytes[task[t].backgroundPath]
                cacheKey == CacheKey(backgroundBuffer, task[t].title)
                r == [task[t] EXCEPT
                        !.backgroundBuffer = backgroundBuffer,
                        !.cacheKey = cacheKey,
                        !.did = @ \cup {Step("read")},
                        !.chk = [inCache |-> InCache(cache, cacheKey),
                                 exists1 |-> existsSync(outFiles, OutputFile(task[t].outputPath, 1)),
                                 exists2 |-> existsSync(outFiles, OutputFile(task[t].outputPath, 2)),
                                 cache |-> cache]]
            IN IF CacheHit(cache, cacheKey, outFiles, task[t].outputPath)
               THEN UseCached(t, r)
               ELSE /\ Become(t, [r EXCEPT !.pc = "loadImage"])
                    /\ UNCHANGED indexFile
  /\ UNCHANGED <<cache, cacheLoaded, overlayImages, font, outFiles, calls,
                 coverVars, truncVars, unitVars>>

\* lines 101-156: the background is decoded, the layout computed, the first
\* scale started
LoadImageDone(t) ==
  /\ task[t].pc = "loadImage"
  /\ LET backgroundImage == DecodeImage(task[t].backgroundBuffer)
     IN IF ~backgroundImage.ok THEN Fail(t)
        ELSE \E ok \in BOOLEAN :
               IF ~ok THEN Fail(t)
               ELSE Become(t, AwaitOverlay(
                      [task[t] EXCEPT
                         !.layout = CoverFit(backgroundImage.width, backgroundImage.height),
                         !.displayTitle = DisplayTitle(task[t].title, FontWidths[font]),
                         !.face = font,
                         !.did = @ \cup {Step("decode"), Step("layout")}],
                      SCALES[1]))
  /\ UNCHANGED <<cache, cacheLoaded, overlayImages, font, indexFile, outFiles, calls,
                 coverVars, truncVars, unitVars>>

\* line 64: the overlay of the current scale is loaded
LoadOverlayDone(t) ==
  /\ task[t].pc = "loadOverlay"
  /\ \E ok \in BOOLEAN :
       IF ok
       THEN /\ overlayImages' = overlayImages \cup {task[t].scale}
            /\ Become(t, [task[t] EXCEPT !.pc = "draw",
                                         !.did = @ \cup {<<"overlay", task[t].scale>>}])
       ELSE /\ Fail(t)
            /\ UNCHANGED overlayImages
  /\ UNCHANGED <<cache, cacheLoaded, font, indexFile, outFiles, calls, coverVars, truncVars, unitVars>>

\* lines 157-178: overlay and text are drawn, the canvas is rendered to a
\* buffer and handed to the encoder
Draw(t) ==
  /\ task[t].pc = "draw"
  /\ \E ok \in BOOLEAN :
       IF ok
       THEN Become(t, [task[t] EXCEPT
                       !.pc = "toFile",
                       !.buffer = Raster(task[t].backgroundBuffer, task[t].layout,
                                         task[t].displayTitle, task[t].scale),
                       !.did = @ \cup {<<"raster", task[t].scale>>}])
       ELSE Fail(t)
  /\ UNCHANGED <<cache, cacheLoaded, overlayImages, font, indexFile, outFiles, calls,
                 coverVars, truncVars, unitVars>>

\* lines 173-182: the encoder finishes the file of the current scale; after
\* the last scale the key is added and saveCache is called
ToFileDone(t) ==
  /\ task[t].pc = "toFile"
  /\ LET outputFile == OutputFile(task[t].outputPath, task[t].scale)
     IN \E outcome \in {"written", "untouched", "partial"} :
          CASE outcome = "written" ->
                 /\ outFiles' = [outFiles EXCEPT ![outputFile] = JpegFile(task[t].buffer)]
                 /\ LET r == [task[t] EXCEPT
                                !.did = @ \cup {<<"encode", task[t].scale>>},
                                !.wrote = @ \cup {outputFile}]
                    IN IF ~IsLastScale(task[t].scale)
                       THEN /\ Become(t, AwaitOverlay(r, SCALES[2]))
                            /\ UNCHANGED cache
                       ELSE /\ cache' = SetAdd(cache, task[t].cacheKey)
                            /\ Become(t, [r EXCEPT
                                          !.pc = "saveCache",
                                          !.contents = SerializeCache(SetAdd(cache, task[t].cacheKey)),
                                          !.did = @ \cup {Step("add")}])
            [] outcome = "untouched" ->
                 /\ Fail(t)
                 /\ UNCHANGED <<outFiles, cache>>
            [] outcome = "partial" ->
                 /\ outFiles' = [outFiles EXCEPT ![outputFile] = PartialFile]
                 /\ Fail(t)
                 /\ UNCHANGED cache
  /\ UNCHANGED <<cacheLoaded, overlayImages, font, indexFile, calls, coverVars, truncVars, unitVars>>

\* saveCache, line 55, and line 183: the write of the index file completes
SaveCacheDone(t) ==
  /\ task[t].pc = "saveCache"
  /\ \E outcome \in {"written", "untouched", "truncated"} :
       CASE outcome = "written" ->
              /\ indexFile' = TextFile(task[t].contents)
              /\ Become(t, [task[t] EXCEPT !.pc = "returned", !.result = "true",
                                           !.did = @ \cup {Step("save")}])
         [] outcome = "untouched" ->
              /\ Fail(t)
              /\ UNCHANGED indexFile
         [] outcome = "truncated" ->
              /\ indexFile' = TextFile(<<>>)
              /\ Fail(t)
  /\ UNCHANGED <<cache, cacheLoaded, overlayImages, font, outFiles, calls, coverVars, truncVars, unitVars>>

\* one createBanner call at a time, each awaited before the next
SequentialCall ==
  /\ \A t \in Tasks : Finished(t)
  /\ \E backgroundPath \in BackgroundPaths, outputPath \in OutputPathInputs,
        bannerTitle \in Titles :
       Call(1, backgroundPath, outputPath, bannerTitle)
  /\ UNCHANGED command

\* an I/O completion of task t, with no news command around the service
Alone(t) == UNCHANGED command

Next ==
  \/ SequentialCall
  \/ \E t \in Tasks : LoadCacheDone(t) /\ Alone(t)
  \/ \E t \in Tasks : ReadFileDone(t) /\ Alone(t)
  \/ \E t \in Tasks : LoadImageDone(t) /\ Alone(t)
  \/ \E t \in Tasks : LoadOverlayDone(t) /\ Alone(t)
  \/ \E t \in Tasks : Draw(t) /\ Alone(t)
  \/ \E t \in Tasks : ToFileDone(t) /\ Alone(t)
  \/ \E t \in Tasks : SaveCacheDone(t) /\ Alone(t)

Spec == Init /\ [][Next]_vars

\* ------------------------------------------------------------------------
\* SpecNews: the banner step of the news command and the stages after it
\* ------------------------------------------------------------------------
\* the flag combinations that pass the checks of news.ts lines 25-43 and
\* reach line 87 (discordOnly returns at line 61)
NewsOptions ==
  { [NoOptions EXCEPT !.threads = TRUE],
    [NoOptions EXCEPT !.skipBanners = TRUE] }

\* the beatmapsets of a round: which background, which title, and the id
\* that names the output stem (NewsService.ts line 171)
Beatmapsets ==
  { [id |-> 1, bgPath |-> None, title |-> <<"a">>],
    [id |-> 2, bgPath |-> "wide.jpg", title |-> <<"W", "W", "a">>] }

\* NewsService.ts line 171: join(bannersPath, beatmapset.id.toString())
BannerStem(beatmapset) == <<ToString(beatmapset.id)>>

\* the lists passed to generateBanners: one beatmapset per nomination that
\* has no parent (news.ts line 78); neither the caller nor generateBanners
\* compares the ids, so the same beatmapset can be listed more than once
Rounds ==
  { round \in [Tasks -> Beatmapsets] :
      \A t \in Tasks, u \in Tasks : t < u => round[t].id <= round[u].id }

\* what the earlier runs enumerated left on disk: nothing, or the banners of
\* beatmapset 1 and their key
NewsDisks == { disk \in InitialDisks : (disk.index.kind = "missing") =
                                       (disk.files[OutputFile(<<"1">>, 1)].kind = "missing") }

InitNews ==
  /\ cache = <<>>
  /\ cacheLoaded = FALSE
  /\ overlayImages = {}
  /\ font = "fallback"
  /\ \E disk \in NewsDisks :
       /\ indexFile = disk.index
       /\ outFiles = disk.files
  /\ task = [t \in Tasks |-> IdleTask]
  /\ calls = 0
  /\ \E options \in NewsOptions, round \in Rounds :
       command = [IdleCommand EXCEPT !.pc = "start", !.options = options,
                                     !.round = round]
  /\ CoverIdle
  /\ TruncIdle
  /\ UnitIdle

\* logAndExit, logger.ts lines 38-46: process.exit(1)
Exit(code) == command' = [command EXCEPT !.pc = "exited", !.exitCode = code]

\* the stage that follows the banner step, news.ts lines 100-119
AfterDiscord(options) == "news"
AfterPolls(options) ==
  IF options.threads /\ ~options.skipDiscord /\ ~options.dryRun
  THEN "discord" ELSE AfterDiscord(options)
AfterBanners(options) ==
  IF options.bannersOnly THEN "done"
  ELSE IF options.threads THEN "polls" ELSE AfterPolls(options)

Enter(stage) ==
  command' = [command EXCEPT !.pc = stage,
                             !.exitCode = IF stage = "done" THEN 0 ELSE @]

\* news.ts lines 87-90 and NewsService.ts line 165: mkdir of the banner
\* directory, or the step skipped altogether
BeginBanners ==
  /\ command.pc = "start"
  /\ IF command.options.skipBanners
     THEN Enter(AfterBanners(command.options))
     ELSE \E made \in BOOLEAN :
            IF made THEN Enter("mapping") ELSE Exit(1)
  /\ UNCHANGED <<cache, cacheLoaded, overlayImages, font, indexFile, outFiles,
                 task, calls, coverVars, truncVars, unitVars>>

\* NewsService.ts lines 168-173: the map callback starts one createBanner per
\* beatmapset; each runs to its first await before the next is started
MapCall ==
  /\ command.pc = "mapping"
  /\ LET beatmapset == command.round[command.next]
     IN Call(command.next, beatmapset.bgPath, BannerStem(beatmapset), beatmapset.title)
  /\ command' = [command EXCEPT !.next = @ + 1,
                                !.pc = IF command.next = NumTasks THEN "banners" ELSE @]

\* NewsService.ts lines 174-190 and news.ts line 95, the continuation of
\* task t's promise in the same turn as the I/O completion that settled it:
\* a rejection is logged and rethrown, rejects the Promise.all of line 167,
\* and logAndExit ends the process; a fulfilment is logged
Settled_swallowed(t) ==
  /\ command.pc = "banners"
  /\ UNCHANGED command

Settled(t) ==
  /\ command.pc = "banners"
  /\ IF task'[t].pc = "failed" THEN Exit(1) ELSE UNCHANGED command

\* news.ts lines 97-102: every task has resolved
BannersDone ==
  /\ command.pc = "banners"
  /\ \A t \in Tasks : task[t].pc = "returned"
  /\ Enter(AfterBanners(command.options))
  /\ UNCHANGED <<cache, cacheLoaded, overlayImages, font, indexFile, outFiles,
                 task, calls, coverVars, truncVars, unitVars>>

\* news.ts lines 105-109: startPolls, or logAndExit when it rejects
StartPolls ==
  /\ command.pc = "polls"
  /\ \E done \in BOOLEAN :
       command' = [command EXCEPT
                     !.did = @ \cup {"polls"},
                     !.pc = IF done THEN AfterPolls(command.options) ELSE "exited",
                     !.exitCode = IF done THEN @ ELSE 1]
  /\ UNCHANGED <<cache, cacheLoaded, overlayImages, font, indexFile, outFiles,
                 task, calls, coverVars, truncVars, unitVars>>

\* news.ts lines 112-117: the Discord announcements
PostDiscord ==
  /\ command.pc = "discord"
  /\ \E done \in BOOLEAN :
       command' = [command EXCEPT
                     !.did = @ \cup {"discord"},
                     !.pc = IF done THEN AfterDiscord(command.options) ELSE "exited",
                     !.exitCode = IF done THEN @ ELSE 1]
  /\ UNCHANGED <<cache, cacheLoaded, overlayImages, font, indexFile, outFiles,
                 task, calls, coverVars, truncVars, unitVars>>

\* news.ts lines 120-127: the news post, after which the command returns
GenerateNews ==
  /\ command.pc = "news"
  /\ \E done \in BOOLEAN :
       command' = [command EXCEPT
                     !.did = @ \cup {"news"},
                     !.pc = IF done THEN "done" ELSE "exited",
                     !.exitCode = IF done THEN 0 ELSE 1]
  /\ UNCHANGED <<cache, cacheLoaded, overlayImages, font, indexFile, outFiles,
                 task, calls, coverVars, truncVars, unitVars>>

NextNews ==
  \/ BeginBanners
  \/ MapCall
  \/ \E t \in Tasks : LoadCacheDone(t) /\ Settled(t)
  \/ \E t \in Tasks : ReadFileDone(t) /\ Settled(t)
  \/ \E t \in Tasks : LoadImageDone(t) /\ Settled(t)
  \/ \E t \in Tasks : LoadOverlayDone(t) /\ Settled(t)
  \/ \E t \in Tasks : Draw(t) /\ Settled(t)
  \/ \E t \in Tasks : ToFileDone(t) /\ Settled(t)
  \/ \E t \in Tasks : SaveCacheDone(t) /\ Settled(t)
  \/ BannersDone
  \/ StartPolls
  \/ PostDiscord
  \/ GenerateNews

SpecNews == InitNews /\ [][NextNews]_vars

\* ------------------------------------------------------------------------
\* Properties of createBanner (Spec)
\* ------------------------------------------------------------------------
HasRead(r) == Step("read") \in r.did
Ended(r) == r.pc \in {"returned", "failed"}
BothFiles(r) == {OutputFile(r.outputPath, 1), OutputFile(r.outputPath, 2)}
RenderSteps == {Step("decode"), Step("layout"), Step("add"), Step("save")}
                 \cup ({"overlay", "raster", "encode"} \X {1, 2})

InIndex(key, file) == file.kind = "text" /\ key \in Range(ParseCache(file.text))

\* the key is recorded in the CacheStore of the snapshot: in the key set
\* when it is loaded, in the index file it will be loaded from otherwise
Recorded(key, snap) ==
  IF snap.cacheLoaded THEN InCache(snap.cache, key) ELSE InIndex(key, snap.indexFile)

SameRequest(r, q) ==
  /\ q.outputPath = r.outputPath
  /\ q.title = r.title
  /\ q.backgroundBuffer = r.backgroundBuffer

FollowsGenerated(r) ==
  /\ "none" \notin DOMAIN r.prev
  /\ r.prev.result = "true"

\* C1: a call whose key is not recorded does not answer "cached", and the
\* call that follows a generating call with the same background bytes, title
\* and output stem returns false, runs no render, encode or write step and
\* leaves both output files as they were.
C1_Idempotent ==
  \A t \in Tasks :
    LET r == task[t] IN
    /\ (r.pc = "returned" /\ ~Recorded(r.cacheKey, r.pre)) => r.result = "true"
    /\ (Ended(r) /\ HasRead(r) /\ FollowsGenerated(r) /\ SameRequest(r, r.prev)) =>
         /\ r.result = "false"
         /\ r.wrote = {}
         /\ r.did \cap RenderSteps = {}
         /\ outFiles = r.pre.outFiles

C1_Witness ==
  LET r == task[1] IN
  /\ r.pc = "returned"
  /\ r.result = "false"
  /\ FollowsGenerated(r)
  /\ SameRequest(r, r.prev)
  /\ ~r.prev.wasRecorded
  /\ \A f \in BothFiles(r) : outFiles[f].kind = "jpeg"

\* C2: createBanner never returns false when one of the two output files
\* was missing at the hit test; with the key recorded but a file missing it
\* renders and writes both files and returns true.
C2_HitNeedsBothFiles ==
  \A t \in Tasks :
    LET r == task[t] IN
    HasRead(r) =>
      /\ r.result = "false" => (r.chk.exists1 /\ r.chk.exists2)
      /\ (r.pc = "returned" /\ r.chk.inCache /\ ~(r.chk.exists1 /\ r.chk.exists2)) =>
           /\ r.result = "true"
           /\ r.wrote = BothFiles(r)
           /\ \A f \in BothFiles(r) : outFiles[f].kind = "jpeg"

C2_Witness ==
  LET r == task[1] IN
  /\ r.pc = "returned"
  /\ r.result = "true"
  /\ r.chk.inCache
  /\ r.chk.exists1
  /\ ~r.chk.exists2

\* C3: a createBanner call that ends in an error leaves the CacheStore as
\* it was: its key is in the in-memory key set, and in the index file, only
\* if it was recorded there before the call.
C3_NoPartialRecord ==
  \A t \in Tasks :
    LET r == task[t] IN
    (r.pc = "failed" /\ HasRead(r)) =>
      /\ InCache(cache, r.cacheKey) => Recorded(r.cacheKey, r.pre)
      /\ InIndex(r.cacheKey, indexFile) => InIndex(r.cacheKey, r.pre.indexFile)

\* C4: a call that returns false has written no output file, has not
\* rewritten the index file, has left the key set as the hit test found it
\* (as it was at entry when the cache was already loaded, as loadCache read
\* it from the index file otherwise) and has run no layout, overlay load,
\* rasterize or encode step.
C4_HitChangesNothing ==
  \A t \in Tasks :
    LET r == task[t] IN
    r.result = "false" =>
      /\ r.wrote = {}
      /\ outFiles = r.pre.outFiles
      /\ indexFile = r.pre.indexFile
      /\ cache = r.chk.cache
      /\ cache = IF r.pre.cacheLoaded THEN r.pre.cache
                 ELSE ParseCache(r.pre.indexFile.text)
      /\ r.did \cap RenderSteps = {}

C4_Witness ==
  LET r == task[1] IN
  /\ r.pc = "returned"
  /\ r.result = "false"
  /\ r.pre.cacheLoaded
  /\ r.pre.indexFile.kind = "text"
  /\ ~InIndex(r.cacheKey, r.pre.indexFile)

\* C5: keys of requests that differ in the background bytes only, or in the
\* title only, differ; and a call that changes exactly one of the two inputs
\* of the generating call before it (same output stem) writes both files and
\* returns true.
C5_KeySensitivity ==
  /\ \A p, q \in DOMAIN FileBytes : \A u, v \in Titles :
       /\ FileBytes[p] # FileBytes[q] => CacheKey(FileBytes[p], u) # CacheKey(FileBytes[q], u)
       /\ u # v => CacheKey(FileBytes[p], u) # CacheKey(FileBytes[p], v)
  /\ \A t \in Tasks :
       LET r == task[t] IN
       ( /\ r.pc = "returned"
         /\ FollowsGenerated(r)
         /\ r.prev.outputPath = r.outputPath
         /\ (r.prev.title = r.title) # (r.prev.backgroundBuffer = r.backgroundBuffer) ) =>
           /\ r.result = "true"
           /\ r.wrote = BothFiles(r)

\* C6: after a call that returns true, exactly <stem>.jpg and <stem>@2x.jpg
\* were written by the call, both exist, and they are 670x200 and 1340x400.
C6_TwoScales ==
  \A t \in Tasks :
    LET r == task[t]
        f1 == outFiles[OutputFile(r.outputPath, 1)]
        f2 == outFiles[OutputFile(r.outputPath, 2)]
    IN r.result = "true" =>
         /\ r.wrote = BothFiles(r)
         /\ f1.kind = "jpeg" /\ f2.kind = "jpeg"
         /\ f1.image.width = 670 /\ f1.image.height = 200
         /\ f2.image.width = 1340 /\ f2.image.height = 400
         /\ f2.image.width = 2 * f1.image.width
         /\ f2.image.height = 2 * f1.image.height

C6_Witness ==
  LET r == task[1] IN
  /\ r.pc = "returned"
  /\ r.result = "true"
  /\ r.wrote = BothFiles(r)
  /\ outFiles[OutputFile(r.outputPath, 2)].kind = "jpeg"
  /\ outFiles[OutputFile(r.outputPath, 2)].image.width = 1340

\* ------------------------------------------------------------------------
\* Properties of the title truncation (SpecTrunc)
\* ------------------------------------------------------------------------
IsPrefixWithEllipsis(d, t) ==
  \E k \in 0 .. (Len(t) - 1) : d = SubSeq(t, 1, k) \o Ellipsis

\* C7: for every title, the measured width at 21px of the displayTitle that
\* createBanner draws is at most 638 logical px.
C7_WidthBound ==
  truncPc = "done" => MeasureText(displayTitle, widths) <= 638

\* C8: a title wider than 638px is displayed as a proper prefix of itself
\* followed by "...", and a title of width at most 638px is displayed
\* unmodified.
C8_EllipsisIffTruncated ==
  truncPc = "done" =>
    IF MeasureText(title, widths) > 638
    THEN IsPrefixWithEllipsis(displayTitle, title)
    ELSE displayTitle = title

C8_Witness ==
  /\ truncPc = "done"
  /\ MeasureText(title, widths) > 638
  /\ Len(truncatedTitle) > 0
  /\ displayTitle = truncatedTitle \o Ellipsis

\* C25: when the title is too wide and "..." alone is wider than 638px, so
\* that no candidate followed by "..." fits, the loop stops at the empty
\* candidate and the displayTitle drawn is the empty string.
C25_DegenerateIsEmpty ==
  ( /\ truncPc = "done"
    /\ MeasureText(title, widths) > 638
    /\ MeasureText(Ellipsis, widths) > 638 ) =>
    /\ truncatedTitle = <<>>
    /\ displayTitle = <<>>

\* the candidate of length k followed by "..." fits
Fits(t, wd, k) == MeasureText(SubSeq(t, 1, k) \o Ellipsis, wd) <= 638

\* a binary search over the cut points lo .. hi for the longest candidate
\* that fits; every cut point below lo is known to fit, every one above hi
\* not to
RECURSIVE BinarySearchCut(_, _, _, _)
BinarySearchCut(t, wd, lo, hi) ==
  IF lo > hi THEN lo - 1
  ELSE LET mid == (lo + hi) \div 2
       IN IF Fits(t, wd, mid)
          THEN BinarySearchCut(t, wd, mid + 1, hi)
          ELSE BinarySearchCut(t, wd, lo, mid - 1)

\* C26: for a title wider than 638px the loop ends with the longest proper
\* prefix p of the title whose p + "..." measures at most 638px, and the
\* displayTitle is that of a binary search for the same cut point.
C26_LinearEqualsBinarySearch ==
  (truncPc = "done" /\ MeasureText(title, widths) > 638) =>
    LET k == Len(truncatedTitle) IN
    /\ k < Len(title)
    /\ truncatedTitle = SubSeq(title, 1, k)
    /\ Fits(title, widths, k)
    /\ \A j \in (k + 1) .. (Len(title) - 1) : ~Fits(title, widths, j)
    /\ k = BinarySearchCut(title, widths, 0, Len(title) - 1)
    /\ displayTitle = SubSeq(title, 1, k) \o Ellipsis

\* C27: the truncation always finishes; each iteration of the loop drops
\* one character of the candidate, so there are never more iterations than
\* the title has characters.
C27_LoopTerminates ==
  /\ <>(truncPc = "done")
  /\ [](iterations <= Len(title))
  /\ [](truncPc = "loop" => Len(truncatedTitle) = Len(title) - iterations)

C27_Witness ==
  /\ truncPc = "done"
  /\ Len(title) = MaxTitleLen
  /\ iterations = Len(title)
  /\ truncatedTitle = <<>>

\* ------------------------------------------------------------------------
\* Properties of the cover-fit geometry (SpecCover)
\* ------------------------------------------------------------------------
RGeqInt(r, n) == r[1] >= n * r[2]

\* C9: if w/h < 670/200 the scaled background is 670 wide and 670*h/w >= 200
\* high, otherwise it is 200 high and 200*w/h >= 670 wide; both ways the
\* source aspect ratio is kept and the 670x200 canvas is covered.
C9_CoverFitRule ==
  layoutPc = "done" =>
    /\ IF srcWidth * 200 < 670 * srcHeight
       THEN /\ layout.width = <<670, 1>>
            /\ layout.height = Rat(670 * srcHeight, srcWidth)
            /\ RGeqInt(layout.height, 200)
       ELSE /\ layout.height = <<200, 1>>
            /\ layout.width = Rat(200 * srcWidth, srcHeight)
            /\ RGeqInt(layout.width, 670)
    /\ RMul(layout.width, RInt(srcHeight)) = RMul(layout.height, RInt(srcWidth))
    /\ RGeqInt(layout.width, 670)
    /\ RGeqInt(layout.height, 200)

C9_Witness ==
  /\ layoutPc = "done"
  /\ srcWidth = 200
  /\ srcHeight = 2000
  /\ layout.width = <<670, 1>>
  /\ layout.height = <<6700, 1>>

\* C10: the canvas lies within the scaled source and the overflow is
\* centred: offsetX = (670 - scaledW)/2 <= 0, offsetY = (200 - scaledH)/2
\* <= 0, one of them is 0, and the margins cropped on either side are equal.
C10_CenteredCrop ==
  layoutPc = "done" =>
    /\ layout.x = RDiv(RSub(<<670, 1>>, layout.width), <<2, 1>>)
    /\ layout.y = RDiv(RSub(<<200, 1>>, layout.height), <<2, 1>>)
    /\ layout.x[1] <= 0
    /\ layout.y[1] <= 0
    /\ layout.x[1] = 0 \/ layout.y[1] = 0
    \* right and bottom edges of the scaled source reach the canvas edge
    /\ RGeqInt(RAdd(layout.x, layout.width), 670)
    /\ RGeqInt(RAdd(layout.y, layout.height), 200)
    \* left margin = right margin, top margin = bottom margin
    /\ RSub(<<0, 1>>, layout.x) = RSub(RAdd(layout.x, layout.width), <<670, 1>>)
    /\ RSub(<<0, 1>>, layout.y) = RSub(RAdd(layout.y, layout.height), <<200, 1>>)

C10_Witness ==
  /\ layoutPc = "done"
  /\ srcWidth = 2000
  /\ srcHeight = 200
  /\ layout.x = <<-665, 1>>
  /\ layout.y = <<0, 1>>

\* C14: a call that encoded and wrote both output files completes as
\* "generated" (returns true) even when the rewrite of the cache index file
\* fails.
C14_IndexWriteNonFatal ==
  \A t \in Tasks :
    LET r == task[t] IN
    (Ended(r) /\ {<<"encode", 1>>, <<"encode", 2>>} \subseteq r.did
              /\ r.wrote = BothFiles(r)) =>
      /\ r.pc = "returned"
      /\ r.result = "true"

\* C15: a call that returns true or false has read its background, and one
\* that returns true has drawn its title with the registered font asset and
\* both overlays loaded: a call whose background, font or overlay could not
\* be read ends in an error instead.
C15_AssetFailureFatal ==
  \A t \in Tasks :
    LET r == task[t] IN
    (r.pc = "returned" /\ r.result \in {"true", "false"}) =>
      /\ HasRead(r)
      /\ r.result = "true" =>
           /\ r.face = "Torus"
           /\ {1, 2} \subseteq overlayImages

\* C16: the read of loadCache never fails the call: when it completes the
\* call goes on to read its background with the key set loaded, which is
\* empty when the index file is missing and empty or the parsed text
\* otherwise (empty when the read failed); a call that loaded an empty key
\* set is a miss, and when it returns it returns true with both files
\* written.
C16_UnreadableIndexIsEmpty ==
  /\ [](\A t \in Tasks :
          LET r == task[t] IN
          (Step("loadCache") \in r.did /\ HasRead(r) /\ r.chk.cache = <<>>) =>
            /\ ~r.chk.inCache
            /\ r.pc = "returned" => (r.result = "true" /\ r.wrote = BothFiles(r)))
  /\ [][\A t \in Tasks :
          (task[t].pc = "loadCache" /\ task'[t] # task[t]) =>
            /\ task'[t].pc = "readFile"
            /\ cacheLoaded'
            /\ cache' \in IF indexFile.kind = "text"
                           THEN {<<>>, ParseCache(indexFile.text)}
                           ELSE {<<>>}]_vars

C16_Witness ==
  \E t \in Tasks :
    LET r == task[t] IN
    /\ r.pc = "returned"
    /\ r.result = "true"
    /\ Step("loadCache") \in r.did
    /\ InIndex(r.cacheKey, r.pre.indexFile)
    /\ r.chk.cache = <<>>
    /\ r.wrote = BothFiles(r)

\* C17: a call that lays out its banner from the same background bytes and
\* title as the call before it computes the same displayTitle and with it
\* the same raster at each scale, whatever happened in the process in
\* between (font registration, overlay and cache state).
C17_Deterministic ==
  \A t \in Tasks :
    LET r == task[t] IN
    ( /\ "none" \notin DOMAIN r.prev
      /\ r.prev.rendered
      /\ Step("layout") \in r.did
      /\ r.prev.backgroundBuffer = r.backgroundBuffer
      /\ r.prev.title = r.title ) =>
      /\ r.displayTitle = r.prev.displayTitle
      /\ \A sc \in Range(SCALES) :
           Raster(r.backgroundBuffer, r.layout, r.displayTitle, sc) =
             Raster(r.prev.backgroundBuffer, r.layout, r.prev.displayTitle, sc)

\* C18: when a call has returned false, the two files at its output stem are
\* the banners of its own background bytes and title at scales 1 and 2.
C18_CachedMatchesFiles ==
  \A t \in Tasks :
    LET r == task[t] IN
    (r.pc = "returned" /\ r.result = "false") =>
      \A sc \in Range(SCALES) :
        \E face \in DOMAIN FontWidths :
          outFiles[OutputFile(r.outputPath, sc)] =
            JpegFile(Banner(r.backgroundBuffer, r.title, face, sc))

\* C19: within a call the 2x file is written after the 1x file, the key is
\* added after both, and the index is rewritten after the key is added; and
\* every step that adds a key to the loaded key set is taken by a call both
\* of whose output files are completely written.
C19_RecordAfterBothFiles ==
  /\ [](\A t \in Tasks :
          LET r == task[t] IN
          /\ <<"encode", 2>> \in r.did => <<"encode", 1>> \in r.did
          /\ Step("add") \in r.did =>
               /\ {<<"encode", 1>>, <<"encode", 2>>} \subseteq r.did
               /\ r.wrote = BothFiles(r)
          /\ Step("save") \in r.did => Step("add") \in r.did)
  /\ [][(cacheLoaded /\ cache' # cache) =>
          \E t \in Tasks :
            /\ cache' = Append(cache, task'[t].cacheKey)
            /\ Step("add") \in task'[t].did
            /\ \A f \in BothFiles(task'[t]) : outFiles'[f].kind = "jpeg"]_vars

C19_Witness ==
  \E t \in Tasks :
    LET r == task[t] IN
    /\ r.pc = "saveCache"
    /\ Step("add") \in r.did
    /\ ~InCache(r.chk.cache, r.cacheKey)
    /\ InCache(cache, r.cacheKey)
    /\ \A f \in BothFiles(r) : outFiles[f] = JpegFile(Banner(r.backgroundBuffer, r.title, r.face, IF f = OutputFile(r.outputPath, 1) THEN 1 ELSE 2))

\* C20: while a call that returned true is the last call of the process, the
\* key set is the key set the call tested (the set before the call when it
\* was loaded already) with the call's key added, one entry longer when the
\* key was not in it and as long otherwise, and the index file parses to
\* exactly that key set.
C20_RecordIsUnionAndRewrite ==
  \A t \in Tasks :
    LET r == task[t] IN
    (r.pc = "returned" /\ r.result = "true") =>
      /\ r.pre.cacheLoaded => r.chk.cache = r.pre.cache
      /\ Range(cache) = Range(r.chk.cache) \cup {r.cacheKey}
      /\ Len(cache) = Len(r.chk.cache) + (IF r.chk.inCache THEN 0 ELSE 1)
      /\ SubSeq(cache, 1, Len(r.chk.cache)) = r.chk.cache
      /\ indexFile.kind = "text"
      /\ ParseCache(indexFile.text) = cache

C20_Witness ==
  \E t \in Tasks :
    LET r == task[t] IN
    /\ r.pc = "returned"
    /\ r.result = "true"
    /\ r.pre.cacheLoaded
    /\ r.pre.cache # <<>>
    /\ ~r.chk.inCache
    /\ Len(cache) = Len(r.pre.cache) + 1
    /\ Len(ParseCache(indexFile.text)) = Len(cache)

\* C21: when a call has ended, by return or by error, the two files at its
\* stem are either both the rendering of that call or both as they were
\* before the call.
C21_MatchingPair ==
  \A t \in Tasks :
    LET r == task[t] IN
    (Ended(r) /\ r.outputPath # <<>>) =>
      \/ \A f \in BothFiles(r) : outFiles[f] = r.pre.outFiles[f]
      \/ \A sc \in Range(SCALES) :
           outFiles[OutputFile(r.outputPath, sc)] =
             JpegFile(Raster(r.backgroundBuffer, r.layout, r.displayTitle, sc))

IndexKeys(file) ==
  IF file.kind = "text" THEN Range(ParseCache(file.text)) ELSE {}

\* C23: in a process that runs its calls one after another, every key that
\* was in the cache index file when a call started is in the index file
\* during and after the call, so the keys the process found on disk stay
\* there.
C23_PersistedKeysKept ==
  \A t \in Tasks :
    LET r == task[t] IN
    r.pc # "idle" => IndexKeys(r.pre.indexFile) \subseteq IndexKeys(indexFile)

\* ------------------------------------------------------------------------
\* Properties of the banner step of the news command (SpecNews)
\* ------------------------------------------------------------------------
Generated(t) == task[t].pc = "returned" /\ task[t].result = "true"

BatchResolved ==
  /\ command.pc # "exited"
  /\ \A t \in Tasks : task[t].pc = "returned"

\* C11: when every task of the fan-out has completed, the index file is the
\* text that one generating task wrote, which holds that task's own key and
\* whatever the key set held when that task recorded; a key recorded by
\* another generating task can be missing from it (the witness).
C11_LastWriterWins ==
  (BatchResolved /\ \E t \in Tasks : Generated(t)) =>
    \E t \in Tasks :
      /\ Generated(t)
      /\ indexFile = TextFile(task[t].contents)
      /\ InIndex(task[t].cacheKey, indexFile)

C11_Witness ==
  /\ BatchResolved
  /\ \E t \in Tasks, u \in Tasks :
       /\ Generated(t) /\ Generated(u)
       /\ ~task[t].chk.inCache /\ ~task[u].chk.inCache
       /\ {Step("add"), Step("save")} \subseteq task[u].did
       /\ InIndex(task[t].cacheKey, indexFile)
       /\ ~InIndex(task[u].cacheKey, indexFile)

\* C12: over the calls of one process, in any interleaving, at most one call
\* reads the cache index file and initialises the in-memory key set from it.
C12_LoadedOnce ==
  Cardinality({t \in Tasks : Step("loadCache") \in task[t].did}) <= 1

\* C13: the step in which a createBanner task of the fan-out fails is the
\* step in which the news command exits with status 1, whatever the other
\* tasks were doing; no poll, Discord or news stage has started then, and
\* nothing happens after the exit.
C13_FailFast ==
  [][ /\ (\E t \in Tasks : task'[t].pc = "failed") =>
           /\ command'.pc = "exited"
           /\ command'.exitCode = 1
           /\ command'.did = {}
      /\ command.pc = "exited" => UNCHANGED vars ]_vars

C13_Witness ==
  /\ command.pc = "exited"
  /\ command.exitCode = 1
  /\ command.options.threads
  /\ command.did = {}
  /\ \E t \in Tasks, u \in Tasks :
       /\ task[t].pc = "failed"
       /\ task[u].pc = "killed"

\* C22: a key that a call of the running process has added to the in-memory
\* key set is in that set, under every interleaving of the calls started
\* concurrently.
C22_KeySetOnlyGrows ==
  \A t \in Tasks :
    (command.pc # "exited" /\ Step("add") \in task[t].did) =>
      InCache(cache, task[t].cacheKey)

\* C28: over the calls of one process, concurrent ones included, the overlay
\* of each scale is loaded from disk by at most one call, and a raster of a
\* scale carries the overlay of that scale.
C28_OverlayLoadedOnce ==
  /\ \A sc \in Range(SCALES) :
       Cardinality({t \in Tasks : <<"overlay", sc>> \in task[t].did}) <= 1
  /\ \A t \in Tasks :
       task[t].pc = "toFile" => task[t].buffer.overlay = task[t].scale

\* C30: in a fan-out no output file is written by more than one of the
\* concurrently running tasks.
C30_OneWriterPerFile ==
  \A t \in Tasks, u \in Tasks :
    t # u => task[t].wrote \cap task[u].wrote = {}

\* ------------------------------------------------------------------------
\* Properties of the index file format (SpecStore)
\* ------------------------------------------------------------------------
\* C24: the key set loaded from the file that saveCache wrote for a set of
\* hex keys is that set, the empty set included, with the keys in the order
\* they were inserted.
C24_IndexRoundTrip ==
  store.pc = "loaded" =>
    /\ store.loaded = store.keys
    /\ Range(store.loaded) = Range(store.keys)

C24_Witness ==
  /\ store.pc = "loaded"
  /\ Len(store.keys) = MaxKeys
  /\ store.loaded = store.keys
  /\ Len(store.text) > Len(store.keys[1])

\* ------------------------------------------------------------------------
\* Properties of the cache key (SpecKey)
\* ------------------------------------------------------------------------
\* C29: two requests that differ in the background bytes or in the title
\* feed different byte sequences to the hash, and so get different keys.
C29_KeySeparatesInputs ==
  (hashing.pc = "done" /\ hashing.a # hashing.b) =>
    /\ hashing.inputA # hashing.inputB
    /\ hashing.keyA # hashing.keyB

====
